---- MODULE Spec2Model ----
(***************************************************************************)
(* number_parser/parser.py as a state machine.                             *)
(*                                                                         *)
(* A Python str is a sequence of characters; a character is a one-symbol   *)
(* TLA+ string ("e_acute" and "SHY" name U+00E9 and U+00AD).  A list of    *)
(* str is a sequence of such sequences.  The three public functions        *)
(* parse, parse_number and parse_ordinal are the operations; the loops of  *)
(* parse and of _build_number advance one token per step.                  *)
(***************************************************************************)
EXTENDS Integers, Sequences, FiniteSets, TLC

VARIABLES
    op,                    \* which public function was called
    language,              \* its language argument
    input_string,          \* its input_string argument
    pc,                    \* "call", "scan", "build" or "done"
    result,                \* what the call returned or raised
    tokens,                \* parse: the token list of line 223
    pos,                   \* parse: tokens consumed by the for loop of line 231
    sentence,              \* parse: line 227
    current_number,        \* parse: line 228
    building_number,       \* parse: line 229
    token_list,            \* _build_number: its token_list argument
    next_token,            \* _build_number: tokens consumed by the loop of line 83
    total_value,           \* _build_number: line 76
    current_grp_value,     \* _build_number: line 77
    previous_token,        \* _build_number: line 78
    previous_power_of_10,  \* _build_number: line 79
    value_list,            \* _build_number: line 80
    used_skip_tokens,      \* _build_number: line 81
    boundaries,            \* history: how often line 101 found the token invalid
    skips_seen,            \* history: skip tokens appended at line 87
    skips_absorbed         \* history: skip tokens cleared at lines 96/131 between two
                           \*   numeral tokens of the same number

vars == <<op, language, input_string, pc, result, tokens, pos, sentence, current_number,
          building_number, token_list, next_token, total_value, current_grp_value,
          previous_token, previous_power_of_10, value_list, used_skip_tokens,
          boundaries, skips_seen, skips_absorbed>>

(***************************************************************************)
(* Bounds of the model.                                                    *)
(***************************************************************************)
\* Words of a text handed to parse_number / parse_ordinal.
MaxWords == 4
\* (word, separator) items of a text handed to parse.
MaxItems == 2
\* Largest n whose digit string is handed to parse_number.
MaxDigitsValue == 120
\* Values the accumulator may reach (Python integers are unbounded).
MaxValue == 2000000000

(***************************************************************************)
(* Characters and str methods.                                             *)
(***************************************************************************)
DigitChars == <<"0", "1", "2", "3", "4", "5", "6", "7", "8", "9">>

IsDigitChar(c) == \E d \in 1..10 : DigitChars[d] = c

DigitValue(c) == (CHOOSE d \in 1..10 : DigitChars[d] = c) - 1

\* Unicode whitespace (str.isspace, \s).
SpaceChars == {" ", "\t", "\n"}

\* Punctuation.
PunctuationChars == {".", ",", "-"}

\* Characters the regular expression class \W matches: whitespace, punctuation, the
\* soft hyphen and the Devanagari vowel sign U+094B (a spacing mark, not alphanumeric).
NonWordChars == SpaceChars \cup PunctuationChars \cup {"SHY", "U094B"}

\* str.lower on one character.
LowerChar(c) ==
    CASE c = "T" -> "t"
      [] c = "A" -> "a"
      [] c = "D" -> "d"
      [] c = "I" -> "i"
      [] c = "E_acute" -> "e_acute"
      [] OTHER -> c

\* NFD decomposition with the combining marks (category Mn) dropped.
StripAccentChar(c) ==
    CASE c = "e_acute" -> "e"
      [] c = "o_acute" -> "o"
      [] c = "E_acute" -> "E"
      [] OTHER -> c

\* str.isspace(): non-empty and whitespace only.
IsSpace(s) == Len(s) > 0 /\ \A i \in 1..Len(s) : s[i] \in SpaceChars

\* str.isnumeric(): non-empty and numeric characters only.
IsNumeric(s) == Len(s) > 0 /\ \A i \in 1..Len(s) : IsDigitChar(s[i])

\* str.lower().
Lower(s) == [i \in 1..Len(s) |-> LowerChar(s[i])]

RECURSIVE IntOfStrLeastFirst(_)
\* int(s) reading the digits least significant first.
IntOfStrLeastFirst(s) ==
    IF Len(s) = 0 THEN 0
    ELSE 10 * IntOfStrLeastFirst(Tail(s)) + DigitValue(Head(s))

RECURSIVE IntOfStr(_)
\* int(s) for a string of decimal digits.
IntOfStr(s) ==
    IF Len(s) = 0 THEN 0
    ELSE 10 * IntOfStr(SubSeq(s, 1, Len(s) - 1)) + DigitValue(s[Len(s)])

RECURSIVE StrOfInt(_)
\* str(n) for n >= 0.
StrOfInt(n) ==
    IF n < 10 THEN <<DigitChars[n + 1]>>
    ELSE Append(StrOfInt(n \div 10), DigitChars[(n % 10) + 1])

RECURSIVE Join(_)
\* ''.join(list).
Join(list) ==
    IF Len(list) = 0 THEN <<>> ELSE Head(list) \o Join(Tail(list))

\* s.startswith(p, i) for the 1-based position i.
MatchesAt(s, p, i) ==
    /\ i + Len(p) - 1 <= Len(s)
    /\ \A j \in 1..Len(p) : s[i + j - 1] = p[j]

RECURSIVE ReplaceFrom(_, _, _, _)
\* s[i:].replace(old, new): leftmost non-overlapping occurrences, old non-empty.
ReplaceFrom(s, old, new, i) ==
    IF i > Len(s) THEN <<>>
    ELSE IF MatchesAt(s, old, i) THEN new \o ReplaceFrom(s, old, new, i + Len(old))
    ELSE <<s[i]>> \o ReplaceFrom(s, old, new, i + 1)

\* s.replace(old, new).
Replace(s, old, new) == ReplaceFrom(s, old, new, 1)

\* re.sub(suffix + '$', new, s): '$' also matches just before one final newline.
SubAtEnd(s, suffix, new) ==
    IF Len(s) >= Len(suffix) /\ MatchesAt(s, suffix, Len(s) - Len(suffix) + 1)
    THEN SubSeq(s, 1, Len(s) - Len(suffix)) \o new
    ELSE IF /\ Len(s) > Len(suffix)
            /\ s[Len(s)] = "\n"
            /\ MatchesAt(s, suffix, Len(s) - Len(suffix))
    THEN SubSeq(s, 1, Len(s) - Len(suffix) - 1) \o new \o <<"\n">>
    ELSE s

(***************************************************************************)
(* Words, spelled out as character sequences.                              *)
(***************************************************************************)
W_zero == <<"z", "e", "r", "o">>
W_one == <<"o", "n", "e">>
W_two == <<"t", "w", "o">>
W_three == <<"t", "h", "r", "e", "e">>
W_five == <<"f", "i", "v", "e">>
W_eight == <<"e", "i", "g", "h", "t">>
W_nine == <<"n", "i", "n", "e">>
W_ten == <<"t", "e", "n">>
W_twelve == <<"t", "w", "e", "l", "v", "e">>
W_twenty == <<"t", "w", "e", "n", "t", "y">>
W_hundred == <<"h", "u", "n", "d", "r", "e", "d">>
W_thousand == <<"t", "h", "o", "u", "s", "a", "n", "d">>
W_million == <<"m", "i", "l", "l", "i", "o", "n">>
W_and == <<"a", "n", "d">>
W_first == <<"f", "i", "r", "s", "t">>
W_second == <<"s", "e", "c", "o", "n", "d">>
W_third == <<"t", "h", "i", "r", "d">>
W_fifth == <<"f", "i", "f", "t", "h">>
W_eighth == <<"e", "i", "g", "h", "t", "h">>
W_ninth == <<"n", "i", "n", "t", "h">>
W_twelfth == <<"t", "w", "e", "l", "f", "t", "h">>
W_ieth == <<"i", "e", "t", "h">>
W_th == <<"t", "h">>
W_y == <<"y">>
W_dos == <<"d", "o", "s">>
W_diez == <<"d", "i", "e", "z">>
W_veinte == <<"v", "e", "i", "n", "t", "e">>
W_cien == <<"c", "i", "e", "n">>
W_doscientos == <<"d", "o", "s", "c", "i", "e", "n", "t", "o", "s">>
W_mil == <<"m", "i", "l">>
W_millon == <<"m", "i", "l", "l", "o", "n">>
W_millon_accented == <<"m", "i", "l", "l", "o_acute", "n">>
\* Russian "dva" (U+0434 U+0432 U+0430) and Hindi "do" (U+0926 U+094B).
W_ru_two == <<"U0434", "U0432", "U0430">>
W_hi_two == <<"U0926", "U094B">>
W_tenth == <<"t", "e", "n", "t", "h">>
W_twentieth == <<"t", "w", "e", "n", "t", "i", "e", "t", "h">>
W_I == <<"I">>
W_have == <<"h", "a", "v", "e">>
W_apples == <<"a", "p", "p", "l", "e", "s">>
W_orange == <<"o", "r", "a", "n", "g", "e">>
W_x == <<"x">>
W_Two == <<"T", "w", "o">>
W_And == <<"A", "n", "d">>
W_Third == <<"T", "h", "i", "r", "d">>

(***************************************************************************)
(* Language data.  The modules number_parser.data.<language> are data; the  *)
(* tables below are excerpts of them, with every category the parser        *)
(* distinguishes present in at least one language.                          *)
(***************************************************************************)
SUPPORTED_LANGUAGES == {"en", "es", "hi", "ru"}

RE_BUG_LANGUAGES == {"hi"}

EmptyDict == [w \in {} |-> 0]

\* getattr(import_module('number_parser.data.' + language), 'info')
language_info(lang) ==
    CASE lang = "en" ->
           [UNIT_NUMBERS |-> (W_zero :> 0) @@ (W_one :> 1) @@ (W_two :> 2) @@ (W_three :> 3),
            DIRECT_NUMBERS |-> (W_ten :> 10) @@ (W_twelve :> 12),
            TENS |-> (W_twenty :> 20),
            HUNDREDS |-> EmptyDict,
            BIG_POWERS_OF_TEN |-> (W_hundred :> 100) @@ (W_thousand :> 1000)
                                    @@ (W_million :> 1000000),
            SKIP_TOKENS |-> {W_and},
            USE_LONG_SCALE |-> FALSE]
      [] lang = "es" ->
           [UNIT_NUMBERS |-> (W_dos :> 2),
            DIRECT_NUMBERS |-> (W_diez :> 10),
            TENS |-> (W_veinte :> 20),
            HUNDREDS |-> (W_cien :> 100) @@ (W_doscientos :> 200),
            BIG_POWERS_OF_TEN |-> (W_mil :> 1000) @@ (W_millon_accented :> 1000000),
            SKIP_TOKENS |-> {W_y},
            USE_LONG_SCALE |-> TRUE]
      [] lang = "hi" ->
           [UNIT_NUMBERS |-> (W_hi_two :> 2),
            DIRECT_NUMBERS |-> EmptyDict,
            TENS |-> EmptyDict,
            HUNDREDS |-> EmptyDict,
            BIG_POWERS_OF_TEN |-> EmptyDict,
            SKIP_TOKENS |-> {},
            USE_LONG_SCALE |-> FALSE]
      [] lang = "ru" ->
           [UNIT_NUMBERS |-> (W_ru_two :> 2),
            DIRECT_NUMBERS |-> EmptyDict,
            TENS |-> EmptyDict,
            HUNDREDS |-> EmptyDict,
            BIG_POWERS_OF_TEN |-> EmptyDict,
            SKIP_TOKENS |-> {},
            USE_LONG_SCALE |-> FALSE]

\* _strip_accents(word)
StripAccents(word) == [i \in 1..Len(word) |-> StripAccentChar(word[i])]

\* _normalize_tokens(token_list)
NormalizeTokens(list) == [i \in 1..Len(list) |-> StripAccents(Lower(list[i]))]

\* _normalize_dict(lang_dict)
NormalizeDict(lang_dict) ==
    [word \in {StripAccents(k) : k \in DOMAIN lang_dict} |->
        lang_dict[CHOOSE k \in DOMAIN lang_dict : StripAccents(k) = word]]

\* LanguageData.__init__ raises ValueError (lines 21-22).
UnsupportedLanguage(lang) == lang \notin SUPPORTED_LANGUAGES

\* LanguageData.__init__ for a supported language (lines 23-34).
LoadLanguageData(lang) ==
    LET info == language_info(lang)
        unit == NormalizeDict(info.UNIT_NUMBERS)
        direct == NormalizeDict(info.DIRECT_NUMBERS)
        tens == NormalizeDict(info.TENS)
        hundreds == NormalizeDict(info.HUNDREDS)
        big == NormalizeDict(info.BIG_POWERS_OF_TEN)
    IN  [unit_numbers |-> unit,
         direct_numbers |-> direct,
         tens |-> tens,
         hundreds |-> hundreds,
         big_powers_of_ten |-> big,
         skip_tokens |-> info.SKIP_TOKENS,
         all_numbers |-> big @@ hundreds @@ tens @@ direct @@ unit,
         unit_and_direct_numbers |-> direct @@ unit,
         maximum_group_value |-> IF info.USE_LONG_SCALE THEN 10000 ELSE 100]

\* The LanguageData objects of the supported languages (each construction of one
\* yields the same value).
LanguageTable == [lang \in SUPPORTED_LANGUAGES |-> LoadLanguageData(lang)]

\* LanguageData(language) for a supported language
LanguageData(lang) == LanguageTable[lang]

(***************************************************************************)
(* The group accumulator, _build_number.                                   *)
(***************************************************************************)
\* Python's None for previous_token (no token is spelled this way).
NoToken == <<"None">>

\* Python's None for previous_power_of_10 (no power of ten is negative).
NoPower == -1

\* _check_validity without the test of lines 45-47 (a ten after a ten or a unit).
CheckValidityNoTens(current, previous, prev_power, total, grp, lang_data) ==
    IF /\ current \in DOMAIN lang_data.unit_and_direct_numbers
       /\ previous \in DOMAIN lang_data.unit_and_direct_numbers
    THEN FALSE
    ELSE IF /\ current \in DOMAIN lang_data.direct_numbers
            /\ previous \in DOMAIN lang_data.tens
    THEN FALSE
    ELSE IF current \in DOMAIN lang_data.hundreds
    THEN ~ (previous \notin DOMAIN lang_data.big_powers_of_ten /\ previous # NoToken)
    ELSE IF current \in DOMAIN lang_data.big_powers_of_ten
    THEN LET power_of_ten == lang_data.big_powers_of_ten[current]
         IN  /\ ~ (power_of_ten < grp)
             /\ ~ (total # 0 /\ prev_power # NoPower /\ power_of_ten >= prev_power)
    ELSE TRUE

\* _check_validity(current_token, previous_token, previous_power_of_10, total_value,
\*                 current_grp_value, lang_data)
CheckValidity(current, previous, prev_power, total, grp, lang_data) ==
    IF /\ current \in DOMAIN lang_data.unit_and_direct_numbers
       /\ previous \in DOMAIN lang_data.unit_and_direct_numbers
    THEN FALSE
    ELSE IF /\ current \in DOMAIN lang_data.direct_numbers
            /\ previous \in DOMAIN lang_data.tens
    THEN FALSE
    ELSE IF current \in DOMAIN lang_data.tens
    THEN ~ (\/ previous \in DOMAIN lang_data.tens
            \/ previous \in DOMAIN lang_data.unit_and_direct_numbers)
    ELSE IF current \in DOMAIN lang_data.hundreds
    THEN ~ (previous \notin DOMAIN lang_data.big_powers_of_ten /\ previous # NoToken)
    ELSE IF current \in DOMAIN lang_data.big_powers_of_ten
    THEN LET power_of_ten == lang_data.big_powers_of_ten[current]
         IN  /\ ~ (power_of_ten < grp)
             /\ ~ (total # 0 /\ prev_power # NoPower /\ power_of_ten >= prev_power)
    ELSE TRUE

\* _check_large_multiplier with the comparison of line 69 turned round.
CheckLargeMultiplierSmaller(current, total, grp, lang_data) ==
    LET combined_value == total + grp
    IN  /\ combined_value # 0
        /\ current \in DOMAIN lang_data.big_powers_of_ten
        /\ lang_data.big_powers_of_ten[current] < combined_value
        /\ lang_data.big_powers_of_ten[current] # 100

\* _check_large_multiplier(current_token, total_value, current_grp_value, lang_data)
CheckLargeMultiplier(current, total, grp, lang_data) ==
    LET combined_value == total + grp
    IN  /\ combined_value # 0
        /\ current \in DOMAIN lang_data.big_powers_of_ten
        /\ lang_data.big_powers_of_ten[current] > combined_value
        /\ lang_data.big_powers_of_ten[current] # 100

\* The locals of _build_number at lines 76-81.
BuildStart ==
    [total_value |-> 0,
     current_grp_value |-> 0,
     previous_token |-> NoToken,
     previous_power_of_10 |-> NoPower,
     value_list |-> <<>>,
     used_skip_tokens |-> <<>>]

\* Lines 110-128 with the short-scale maximum group value 100 for every language.
AccumulateShortScale(b, token, lang_data) ==
    IF token \in DOMAIN lang_data.unit_and_direct_numbers
    THEN [b EXCEPT !.current_grp_value = @ + lang_data.unit_and_direct_numbers[token]]
    ELSE IF token \in DOMAIN lang_data.tens
    THEN [b EXCEPT !.current_grp_value = @ + lang_data.tens[token]]
    ELSE IF token \in DOMAIN lang_data.hundreds
    THEN [b EXCEPT !.current_grp_value = @ + lang_data.hundreds[token]]
    ELSE IF token \in DOMAIN lang_data.big_powers_of_ten
    THEN LET power_of_ten == lang_data.big_powers_of_ten[token]
             grp == (IF b.current_grp_value = 0 THEN 1 ELSE b.current_grp_value)
                        * power_of_ten
         IN  IF power_of_ten > 100
             THEN [b EXCEPT !.total_value = @ + grp,
                            !.current_grp_value = 0,
                            !.previous_power_of_10 = power_of_ten]
             ELSE [b EXCEPT !.current_grp_value = grp]
    ELSE b

\* Lines 110-128: the token's value is added to the open group.
Accumulate(b, token, lang_data) ==
    IF token \in DOMAIN lang_data.unit_and_direct_numbers
    THEN [b EXCEPT !.current_grp_value = @ + lang_data.unit_and_direct_numbers[token]]
    ELSE IF token \in DOMAIN lang_data.tens
    THEN [b EXCEPT !.current_grp_value = @ + lang_data.tens[token]]
    ELSE IF token \in DOMAIN lang_data.hundreds
    THEN [b EXCEPT !.current_grp_value = @ + lang_data.hundreds[token]]
    ELSE IF token \in DOMAIN lang_data.big_powers_of_ten
    THEN LET power_of_ten == lang_data.big_powers_of_ten[token]
             grp == (IF b.current_grp_value = 0 THEN 1 ELSE b.current_grp_value)
                        * power_of_ten
         IN  IF power_of_ten > lang_data.maximum_group_value
             THEN [b EXCEPT !.total_value = @ + grp,
                            !.current_grp_value = 0,
                            !.previous_power_of_10 = power_of_ten]
             ELSE [b EXCEPT !.current_grp_value = grp]
    ELSE b

\* Lines 101-108 with lines 102 and 105-106 exchanged: the pending skip words are
\* flushed before the number.
CloseNumberSkipsFirst(b) ==
    [b EXCEPT !.value_list = (@ \o b.used_skip_tokens)
                                 \o <<StrOfInt(b.total_value + b.current_grp_value)>>,
              !.total_value = 0,
              !.current_grp_value = 0,
              !.previous_power_of_10 = NoPower]

\* Lines 101-108 without line 103: total_value is not reset.
CloseNumberKeepsTotal(b) ==
    [b EXCEPT !.value_list = (@ \o <<StrOfInt(b.total_value + b.current_grp_value)>>)
                                 \o b.used_skip_tokens,
              !.current_grp_value = 0,
              !.previous_power_of_10 = NoPower]

\* Lines 101-108: the token cannot continue the number, which is closed and emitted.
CloseNumber(b) ==
    [b EXCEPT !.value_list = (@ \o <<StrOfInt(b.total_value + b.current_grp_value)>>)
                                 \o b.used_skip_tokens,
              !.total_value = 0,
              !.current_grp_value = 0,
              !.previous_power_of_10 = NoPower]

\* Line 100 finds the token invalid (after line 90 found no large multiplier).
DeclaresBoundary(b, token, lang_data) ==
    /\ ~ (IsSpace(token) \/ token = <<>>)
    /\ token \notin lang_data.skip_tokens
    /\ ~ CheckLargeMultiplier(token, b.total_value, b.current_grp_value, lang_data)
    /\ ~ CheckValidity(token, b.previous_token, b.previous_power_of_10, b.total_value,
                       b.current_grp_value, lang_data)

\* One iteration of the loop of _build_number (lines 83-131).
BuildStep(b, token, lang_data) ==
    IF IsSpace(token) \/ token = <<>>
    THEN b
    ELSE IF token \in lang_data.skip_tokens
    THEN [b EXCEPT !.used_skip_tokens = Append(@, token)]
    ELSE IF CheckLargeMultiplier(token, b.total_value, b.current_grp_value, lang_data)
    THEN [b EXCEPT !.total_value = (b.total_value + b.current_grp_value)
                                       * lang_data.big_powers_of_ten[token],
                   !.previous_token = token,
                   !.current_grp_value = 0,
                   !.used_skip_tokens = <<>>,
                   !.previous_power_of_10 = lang_data.big_powers_of_ten[token]]
    ELSE LET closed == IF DeclaresBoundary(b, token, lang_data) THEN CloseNumber(b) ELSE b
         IN  [Accumulate(closed, token, lang_data) EXCEPT !.previous_token = token,
                                                          !.used_skip_tokens = <<>>]

\* Lines 132-134: the value _build_number returns.
BuildFinish(b) == Append(b.value_list, StrOfInt(b.total_value + b.current_grp_value))

RECURSIVE BuildLoop(_, _, _)
\* The loop of _build_number over the rest of the tokens.
BuildLoop(b, list, lang_data) ==
    IF Len(list) = 0 THEN b
    ELSE BuildLoop(BuildStep(b, Head(list), lang_data), Tail(list), lang_data)

\* _build_number(token_list, lang_data)
BuildNumber(list, lang_data) == BuildFinish(BuildLoop(BuildStart, list, lang_data))

(***************************************************************************)
(* Tokenizing and the single-number resolvers.                             *)
(***************************************************************************)
RECURSIVE SplitNonWord(_, _, _)
\* re.split(r'(\W)', s[i:]) with `word` the word characters read so far.
SplitNonWord(s, i, word) ==
    IF i > Len(s) THEN <<word>>
    ELSE IF s[i] \in NonWordChars
    THEN <<word, <<s[i]>>>> \o SplitNonWord(s, i + 1, <<>>)
    ELSE SplitNonWord(s, i + 1, Append(word, s[i]))

RECURSIVE SplitSpace(_, _, _)
\* s[i:].split() with `word` the characters read since the last whitespace.
SplitSpace(s, i, word) ==
    IF i > Len(s) THEN (IF Len(word) = 0 THEN <<>> ELSE <<word>>)
    ELSE IF s[i] \in SpaceChars
    THEN (IF Len(word) = 0 THEN <<>> ELSE <<word>>) \o SplitSpace(s, i + 1, <<>>)
    ELSE SplitSpace(s, i + 1, Append(word, s[i]))

\* _tokenize(input_string, language)
Tokenize(s, lang) ==
    LET cleaned == Replace(s, <<"SHY">>, <<>>)
    IN  IF lang \in RE_BUG_LANGUAGES THEN SplitSpace(cleaned, 1, <<>>)
        ELSE SplitNonWord(cleaned, 1, <<>>)

\* What a call returns (a str, an int or None) or raises (ValueError).
ReturnsInt(n) == [kind |-> "int", val |-> n, str |-> <<>>]
ReturnsStr(s) == [kind |-> "str", val |-> 0, str |-> s]
ReturnsNone == [kind |-> "None", val |-> 0, str |-> <<>>]
RaisesValueError == [kind |-> "ValueError", val |-> 0, str |-> <<>>]
NotReturned == [kind |-> "running", val |-> 0, str |-> <<>>]

\* Python's truth value of a returned int or None.
Truthy(r) == r.kind = "int" /\ r.val # 0

\* The loop of lines 205-210 without the test "index != 0" of line 208.
PassesPreCheckAnyIndex(normalized_tokens, lang_data) ==
    \A i \in 1..Len(normalized_tokens) :
        LET token == normalized_tokens[i]
        IN  \/ token \in DOMAIN lang_data.all_numbers
            \/ IsSpace(token)
            \/ Len(token) = 0
            \/ token \in lang_data.skip_tokens

\* The loop of parse_number at lines 205-210 reaches line 211.
PassesPreCheck(normalized_tokens, lang_data) ==
    \A i \in 1..Len(normalized_tokens) :
        LET token == normalized_tokens[i]
            index == i - 1
        IN  \/ token \in DOMAIN lang_data.all_numbers
            \/ IsSpace(token)
            \/ Len(token) = 0
            \/ (token \in lang_data.skip_tokens /\ index # 0)

\* Lines 212-214 with the test "if number_built" for "len(number_built) == 1".
NumberBuiltFirstSegment(number_built) ==
    IF Len(number_built) >= 1 /\ IsNumeric(number_built[1])
    THEN ReturnsInt(IntOfStr(number_built[1]))
    ELSE ReturnsNone

\* Lines 212-214 with a truth test on the number: a value of 0 counts as no number.
NumberBuiltNonZero(number_built) ==
    IF Len(number_built) = 1 /\ IntOfStr(number_built[1]) # 0
    THEN ReturnsInt(IntOfStr(number_built[1]))
    ELSE ReturnsNone

\* Lines 212-214 of parse_number.
NumberBuilt(number_built) ==
    IF Len(number_built) = 1 THEN ReturnsInt(IntOfStr(number_built[1])) ELSE ReturnsNone

\* parse_number(input_string, language)
ParseNumber(s, lang) ==
    IF UnsupportedLanguage(lang) THEN RaisesValueError
    ELSE IF IsNumeric(s) THEN ReturnsInt(IntOfStr(s))
    ELSE LET lang_data == LanguageData(lang)
             normalized_tokens == NormalizeTokens(Tokenize(s, lang))
         IN  IF ~ PassesPreCheck(normalized_tokens, lang_data) THEN ReturnsNone
             ELSE NumberBuilt(BuildNumber(normalized_tokens, lang_data))

\* CARDINAL_DIRECT_NUMBERS, in the order the dict is written.
CARDINAL_DIRECT_NUMBERS ==
    << <<W_first, W_one>>, <<W_second, W_two>>, <<W_third, W_three>>,
       <<W_fifth, W_five>>, <<W_eighth, W_eight>>, <<W_ninth, W_nine>>,
       <<W_twelfth, W_twelve>> >>

RECURSIVE ReplaceAll(_, _, _)
\* The loop of lines 185-186 from the i-th entry on.
ReplaceAll(s, pairs, i) ==
    IF i > Len(pairs) THEN s
    ELSE ReplaceAll(Replace(s, pairs[i][1], pairs[i][2]), pairs, i + 1)

\* _apply_cardinal_conversion with lines 187 and 188 exchanged: 'th' is stripped
\* before 'ieth' is looked for.
ApplyCardinalConversionThFirst(s, lang) ==
    SubAtEnd(SubAtEnd(ReplaceAll(Lower(s), CARDINAL_DIRECT_NUMBERS, 1), W_th, <<>>),
             W_ieth, W_y)

\* _apply_cardinal_conversion(input_string, language)
ApplyCardinalConversion(s, lang) ==
    SubAtEnd(SubAtEnd(ReplaceAll(Lower(s), CARDINAL_DIRECT_NUMBERS, 1), W_ieth, W_y),
             W_th, <<>>)

\* parse_ordinal(input_string, language)
ParseOrdinal(s, lang) == ParseNumber(ApplyCardinalConversion(s, lang), lang)

\* _is_cardinal_token(token, language) for a supported language
IsCardinalToken(token, lang) == token \in DOMAIN LanguageData(lang).all_numbers

\* _is_ordinal_token(token, language)
IsOrdinalToken(token, lang) == IsCardinalToken(ApplyCardinalConversion(token, lang), lang)

\* _is_skip_token(token, language)
IsSkipToken(token, lang) == token \in LanguageData(lang).skip_tokens

\* is_number_token(token, language)
IsNumberToken(token, lang) == IsCardinalToken(token, lang) \/ IsOrdinalToken(token, lang)

\* _parse_number_tokens with parse_ordinal(current_number_str, language) at line 278.
ParseNumberTokensCallerLanguage(number_tokens, lang) ==
    LET current_number_str ==
            Join([i \in 1..Len(number_tokens) |-> StripAccents(Lower(number_tokens[i]))])
        cardinal == ParseNumber(current_number_str, lang)
        number == IF ~ Truthy(cardinal) THEN ParseOrdinal(current_number_str, lang)
                  ELSE cardinal
    IN  IF Truthy(number) THEN StrOfInt(number.val) ELSE current_number_str

\* _parse_number_tokens(current_number, language): the text it returns.
ParseNumberTokens(number_tokens, lang) ==
    LET current_number_str ==
            Join([i \in 1..Len(number_tokens) |-> StripAccents(Lower(number_tokens[i]))])
        cardinal == ParseNumber(current_number_str, lang)
        number == IF ~ Truthy(cardinal) THEN ParseOrdinal(current_number_str, "en")
                  ELSE cardinal
    IN  IF Truthy(number) THEN StrOfInt(number.val) ELSE current_number_str

(***************************************************************************)
(* The calls the model makes: texts built from a few words per language.   *)
(***************************************************************************)
Sp == <<" ">>
Dot == <<".">>

RECURSIVE JoinWords(_)
\* ' '.join(words)
JoinWords(words) ==
    IF Len(words) = 0 THEN <<>>
    ELSE IF Len(words) = 1 THEN words[1]
    ELSE words[1] \o Sp \o JoinWords(Tail(words))

Languages == SUPPORTED_LANGUAGES \cup {"xx"}

NumberWords(lang) ==
    CASE lang = "en" -> {W_two, W_ten, W_twenty, W_hundred, W_thousand, W_million,
                         W_and, W_x}
      [] lang = "es" -> {W_dos, W_cien, W_doscientos, W_mil, W_millon_accented, W_y}
      [] lang = "hi" -> {W_hi_two, W_x}
      [] lang = "ru" -> {W_ru_two, W_x}
      [] OTHER -> {W_two, W_x}

OrdinalWords(lang) ==
    CASE lang = "en" -> {W_two, W_twenty, W_hundred, W_third, W_tenth, W_twentieth, W_x}
      [] lang = "es" -> {W_dos, W_mil \o W_th, W_x}
      [] lang = "hi" -> {W_hi_two, W_x}
      [] lang = "ru" -> {W_ru_two, W_x}
      [] OTHER -> {W_third, W_x}

SentenceWords(lang) ==
    CASE lang = "en" -> {<<>>, W_zero, W_two, W_twenty, W_and, W_x}
      [] lang = "es" -> {<<>>, W_dos, W_mil \o W_th, W_y, W_x}
      [] lang = "hi" -> {<<>>, W_hi_two, W_x}
      [] lang = "ru" -> {<<>>, W_ru_two, W_x}
      [] OTHER -> {<<>>, W_two, W_x}

Separators == {Sp, Dot}

\* The texts the specification's examples and the edge cases of the source name.
ExampleNumbers ==
    { JoinWords(<<W_one, W_thousand, W_two, W_hundred>>),
      JoinWords(<<W_two, W_hundred, W_thousand>>),
      JoinWords(<<W_one, W_hundred, W_thousand, W_two, W_hundred>>),
      JoinWords(<<W_twenty, W_two, W_ten>>),
      JoinWords(<<W_one, W_hundred, W_and, W_twenty>>),
      JoinWords(<<W_one, W_thousand, W_one, W_million>>),
      Sp \o W_and \o Sp \o W_two,
      W_two \o Sp,
      W_two \o Sp \o Sp \o W_two,
      W_Two \o Sp \o W_And \o Sp \o W_two,
      W_two \o Dot,
      <<"0", "0", "7">>,
      W_zero,
      JoinWords(<<W_two, W_zero>>),
      JoinWords(<<W_veinte, W_dos>>),
      Sp \o W_and,
      <<>>,
      Sp }

ExampleOrdinals ==
    { JoinWords(<<W_twenty, W_third>>), W_twelfth, W_second \o <<"s">>, W_Third,
      JoinWords(<<W_Two, W_hundred \o W_th>>), <<>> }

ExampleSentences ==
    { JoinWords(<<W_I, W_have, W_twenty, W_three, W_apples, W_and, W_one, W_orange>>) \o Dot,
      JoinWords(<<W_Two, W_Two, W_x>>),
      JoinWords(<<W_twenty, W_third>>) \o Dot,
      JoinWords(<<W_two, W_And, W_two>>),
      W_two \o <<"SHY">> \o Sp \o W_x,
      W_x \o <<"SHY">> \o W_x,
      <<>> }

\* s is a text the model hands to parse_number in the language lang.
IsNumberText(s, lang) ==
    \/ \E k \in 1..MaxWords : \E ws \in [1..k -> NumberWords(lang)] : s = JoinWords(ws)
    \/ \E n \in 0..MaxDigitsValue : s = StrOfInt(n)
    \/ lang \in {"en", "es", "hi", "xx"} /\ s \in ExampleNumbers

\* s is a text the model hands to parse_ordinal in the language lang.
IsOrdinalText(s, lang) ==
    \/ \E k \in 1..(MaxWords - 1) : \E ws \in [1..k -> OrdinalWords(lang)] :
          s = JoinWords(ws)
    \/ lang \in {"en", "xx"} /\ s \in ExampleOrdinals

\* s is a text the model hands to parse in the language lang: up to MaxItems words
\* (or nothing), each followed by a separator, and a last word (or nothing).
IsSentenceText(s, lang) ==
    \/ \E k \in 0..MaxItems :
          \E items \in [1..k -> SentenceWords(lang) \X Separators] :
             \E last \in SentenceWords(lang) :
                s = Join([i \in 1..k |-> items[i][1] \o items[i][2]]) \o last
    \/ lang \in {"en", "xx"} /\ s \in ExampleSentences

(***************************************************************************)
(* The state machine.                                                      *)
(***************************************************************************)
Init ==
    /\ language \in Languages
    /\ \/ op = "parse_number" /\ IsNumberText(input_string, language)
       \/ op = "parse_ordinal" /\ IsOrdinalText(input_string, language)
       \/ op = "parse" /\ IsSentenceText(input_string, language)
    /\ pc = "call"
    /\ result = NotReturned
    /\ tokens = <<>>
    /\ pos = 1
    /\ sentence = <<>>
    /\ current_number = <<>>
    /\ building_number = FALSE
    /\ token_list = <<>>
    /\ next_token = 1
    /\ total_value = 0
    /\ current_grp_value = 0
    /\ previous_token = NoToken
    /\ previous_power_of_10 = NoPower
    /\ value_list = <<>>
    /\ used_skip_tokens = <<>>
    /\ boundaries = 0
    /\ skips_seen = 0
    /\ skips_absorbed = 0

scan_vars == <<tokens, pos, sentence, current_number, building_number>>

build_vars == <<token_list, next_token, total_value, current_grp_value, previous_token,
                previous_power_of_10, value_list, used_skip_tokens, boundaries,
                skips_seen, skips_absorbed>>

call_vars == <<op, language, input_string>>

\* The locals of _build_number as one record.
BuildState ==
    [total_value |-> total_value,
     current_grp_value |-> current_grp_value,
     previous_token |-> previous_token,
     previous_power_of_10 |-> previous_power_of_10,
     value_list |-> value_list,
     used_skip_tokens |-> used_skip_tokens]

\* parse_number with lines 199 and 200 exchanged: digits are read before the
\* language is looked up.
EnterParseNumberDigitsFirst(s) ==
    IF IsNumeric(s)
    THEN /\ result' = ReturnsInt(IntOfStr(s))
         /\ pc' = "done"
         /\ UNCHANGED build_vars
    ELSE IF UnsupportedLanguage(language)
    THEN /\ result' = RaisesValueError
         /\ pc' = "done"
         /\ UNCHANGED build_vars
    ELSE LET normalized_tokens == NormalizeTokens(Tokenize(s, language))
         IN  /\ token_list' = normalized_tokens
             /\ IF ~ PassesPreCheck(normalized_tokens, LanguageData(language))
                THEN result' = ReturnsNone /\ pc' = "done"
                ELSE pc' = "build" /\ UNCHANGED result
             /\ UNCHANGED <<next_token, total_value, current_grp_value, previous_token,
                            previous_power_of_10, value_list, used_skip_tokens,
                            boundaries, skips_seen, skips_absorbed>>

\* parse_number up to the call of _build_number (lines 199-211), on the text s.
EnterParseNumber(s) ==
    IF UnsupportedLanguage(language)
    THEN /\ result' = RaisesValueError
         /\ pc' = "done"
         /\ UNCHANGED build_vars
    ELSE IF IsNumeric(s)
    THEN /\ result' = ReturnsInt(IntOfStr(s))
         /\ pc' = "done"
         /\ UNCHANGED build_vars
    ELSE LET normalized_tokens == NormalizeTokens(Tokenize(s, language))
         IN  IF ~ PassesPreCheck(normalized_tokens, LanguageData(language))
             THEN /\ result' = ReturnsNone
                  /\ pc' = "done"
                  /\ token_list' = normalized_tokens
                  /\ UNCHANGED <<next_token, total_value, current_grp_value,
                                 previous_token, previous_power_of_10, value_list,
                                 used_skip_tokens, boundaries, skips_seen,
                                 skips_absorbed>>
             ELSE /\ pc' = "build"
                  /\ token_list' = normalized_tokens
                  /\ UNCHANGED <<result, next_token, total_value, current_grp_value,
                                 previous_token, previous_power_of_10, value_list,
                                 used_skip_tokens, boundaries, skips_seen,
                                 skips_absorbed>>

\* parse_number(input_string, language) is called.
ParseNumberCall ==
    /\ pc = "call"
    /\ op = "parse_number"
    /\ EnterParseNumber(input_string)
    /\ UNCHANGED <<call_vars, scan_vars>>

\* parse_ordinal(input_string, language) is called.
ParseOrdinalCall ==
    /\ pc = "call"
    /\ op = "parse_ordinal"
    /\ EnterParseNumber(ApplyCardinalConversion(input_string, language))
    /\ UNCHANGED <<call_vars, scan_vars>>

\* The multiplication of line 93 or 124 stays within the values the model holds.
WithinMaxValue(b, token, lang_data) ==
    token \in DOMAIN lang_data.big_powers_of_ten =>
        (b.total_value + b.current_grp_value) <= MaxValue \div lang_data.big_powers_of_ten[token]

\* One iteration of the loop of _build_number.
BuildToken ==
    /\ pc = "build"
    /\ next_token <= Len(token_list)
    /\ LET token == token_list[next_token]
           lang_data == LanguageData(language)
           after == BuildStep(BuildState, token, lang_data)
           numeral == ~ (IsSpace(token) \/ token = <<>>) /\ token \notin lang_data.skip_tokens
           boundary == DeclaresBoundary(BuildState, token, lang_data)
       IN  /\ WithinMaxValue(BuildState, token, lang_data)
           /\ total_value' = after.total_value
           /\ current_grp_value' = after.current_grp_value
           /\ previous_token' = after.previous_token
           /\ previous_power_of_10' = after.previous_power_of_10
           /\ value_list' = after.value_list
           /\ used_skip_tokens' = after.used_skip_tokens
           /\ boundaries' = boundaries + (IF boundary THEN 1 ELSE 0)
           /\ skips_seen' = skips_seen + (IF token \in lang_data.skip_tokens THEN 1 ELSE 0)
           /\ skips_absorbed' =
                 skips_absorbed + (IF numeral /\ ~ boundary /\ previous_token # NoToken
                                   THEN Len(used_skip_tokens) ELSE 0)
    /\ next_token' = next_token + 1
    /\ UNCHANGED <<call_vars, scan_vars, token_list, pc, result>>

\* _build_number returns and parse_number returns (lines 132-134 and 212-214).
BuildReturn ==
    /\ pc = "build"
    /\ next_token > Len(token_list)
    /\ value_list' = BuildFinish(BuildState)
    /\ total_value' = total_value + current_grp_value
    /\ result' = NumberBuilt(value_list')
    /\ pc' = "done"
    /\ UNCHANGED <<call_vars, scan_vars, token_list, next_token, current_grp_value,
                   previous_token, previous_power_of_10, used_skip_tokens, boundaries,
                   skips_seen, skips_absorbed>>

\* parse(input_string, language) is called (lines 223-229).
ParseCall ==
    /\ pc = "call"
    /\ op = "parse"
    /\ tokens' = Tokenize(input_string, language)
    /\ pos' = 1
    /\ sentence' = <<>>
    /\ current_number' = <<>>
    /\ building_number' = FALSE
    /\ pc' = "scan"
    /\ UNCHANGED <<call_vars, build_vars, result>>

\* Lines 249-255: the buffered run is resolved before the boundary token `token`.
ResolveRun(out, run, token, lang) ==
    (Append(out, ParseNumberTokens(run, lang))
        \o (IF IsSpace(run[Len(run)]) THEN <<run[Len(run)]>> ELSE <<>>))
        \o <<token>>

\* One iteration of the loop of parse (lines 231-259).
ScanToken ==
    /\ pc = "scan"
    /\ pos <= Len(tokens)
    /\ LET token == tokens[pos]
           normalized_token == StripAccents(Lower(token))
       IN  IF UnsupportedLanguage(language)
           THEN /\ result' = RaisesValueError
                /\ pc' = "done"
                /\ UNCHANGED <<pos, sentence, current_number, building_number>>
           ELSE LET is_number == IsNumberToken(normalized_token, language)
                IN  /\ pos' = pos + 1
                    /\ UNCHANGED <<pc, result>>
                    /\ IF ~ building_number
                       THEN IF is_number
                            THEN /\ building_number' = TRUE
                                 /\ current_number' = Append(current_number, token)
                                 /\ UNCHANGED sentence
                            ELSE /\ sentence' = Append(sentence, token)
                                 /\ UNCHANGED <<current_number, building_number>>
                       ELSE IF \/ is_number
                               \/ IsSpace(token)
                               \/ token = <<>>
                               \/ IsSkipToken(token, language)
                            THEN /\ current_number' = Append(current_number, token)
                                 /\ UNCHANGED <<sentence, building_number>>
                            ELSE /\ sentence' = ResolveRun(sentence, current_number, token,
                                                           language)
                                 /\ building_number' = FALSE
                                 /\ current_number' = <<>>
    /\ UNCHANGED <<call_vars, build_vars, tokens>>

\* parse leaving its loop before the last token is read.
ScanReturnBeforeLast ==
    /\ pc = "scan"
    /\ pos >= Len(tokens)
    /\ sentence' = IF building_number
                   THEN Append(sentence, ParseNumberTokens(current_number, language))
                   ELSE sentence
    /\ result' = ReturnsStr(Join(sentence'))
    /\ pc' = "done"
    /\ UNCHANGED <<call_vars, build_vars, tokens, pos, current_number, building_number>>

\* parse without lines 262-264: a run still buffered at the end is dropped.
ScanReturnDropsRun ==
    /\ pc = "scan"
    /\ pos > Len(tokens)
    /\ sentence' = sentence
    /\ result' = ReturnsStr(Join(sentence'))
    /\ pc' = "done"
    /\ UNCHANGED <<call_vars, build_vars, tokens, pos, current_number, building_number>>

\* The loop of parse is over (lines 262-266).
ScanReturn ==
    /\ pc = "scan"
    /\ pos > Len(tokens)
    /\ sentence' = IF building_number
                   THEN Append(sentence, ParseNumberTokens(current_number, language))
                   ELSE sentence
    /\ result' = ReturnsStr(Join(sentence'))
    /\ pc' = "done"
    /\ UNCHANGED <<call_vars, build_vars, tokens, pos, current_number, building_number>>

Next ==
    \/ ParseNumberCall
    \/ ParseOrdinalCall
    \/ BuildToken
    \/ BuildReturn
    \/ ParseCall
    \/ ScanToken
    \/ ScanReturn

Spec == Init /\ [][Next]_vars

(***************************************************************************)
(* What the sentence scanner is specified to return.                       *)
(***************************************************************************)
RECURSIVE SplitWords(_, _, _)
\* The words, whitespace characters and punctuation marks of s[i:], in order.
SplitWords(s, i, word) ==
    IF i > Len(s) THEN <<word>>
    ELSE IF s[i] \in SpaceChars \cup PunctuationChars
    THEN <<word, <<s[i]>>>> \o SplitWords(s, i + 1, <<>>)
    ELSE SplitWords(s, i + 1, Append(word, s[i]))

\* The token is a cardinal or ordinal numeral of the language.
IsNumeral(token, lang) == IsNumberToken(StripAccents(Lower(token)), lang)

\* The token may stand inside a number run.
ExtendsRun(token, lang) ==
    \/ IsNumeral(token, lang)
    \/ IsSpace(token)
    \/ token = <<>>
    \/ IsSkipToken(StripAccents(Lower(token)), lang)

\* The last numeral of the number run that starts at the numeral toks[i].
RunEnd(toks, i, lang) ==
    CHOOSE j \in i..Len(toks) :
        /\ IsNumeral(toks[j], lang)
        /\ \A k \in i..j : ExtendsRun(toks[k], lang)
        /\ \A m \in (j + 1)..Len(toks) :
              ~ (IsNumeral(toks[m], lang) /\ \A k \in i..m : ExtendsRun(toks[k], lang))

\* What the resolvers make of the text of a run: parse_number, then parse_ordinal.
Resolved(run_str, lang) ==
    LET cardinal == ParseNumber(run_str, lang)
    IN  IF cardinal.kind = "int" THEN cardinal ELSE ParseOrdinal(run_str, "en")

RECURSIVE ExpectedSentence(_, _, _)
\* The text of toks[i..]: each resolved run as its decimal string, all else verbatim.
ExpectedSentence(toks, i, lang) ==
    IF i > Len(toks) THEN <<>>
    ELSE IF IsNumeral(toks[i], lang)
    THEN LET j == RunEnd(toks, i, lang)
             run == SubSeq(toks, i, j)
             number == Resolved(StripAccents(Lower(Join(run))), lang)
         IN  (IF number.kind = "int" THEN StrOfInt(number.val) ELSE Join(run))
                \o ExpectedSentence(toks, j + 1, lang)
    ELSE toks[i] \o ExpectedSentence(toks, i + 1, lang)

\* parse has returned a text.
ParseReturned == pc = "done" /\ op = "parse" /\ result.kind = "str"

\* C1: parse returns the input with each resolved number run replaced by its decimal
\* string and every other token (words, skip words, punctuation, every whitespace
\* token, also the whitespace between a run and what follows it) verbatim, once and
\* in the original order.
C1_OtherTokensVerbatim ==
    ParseReturned =>
        result.str = ExpectedSentence(SplitWords(input_string, 1, <<>>), 1, language)

(***************************************************************************)
(* The sentence scanner resolving a run.                                   *)
(***************************************************************************)
\* This step resolves the buffered run: at a boundary token (line 249) or at the end
\* of the stream (line 263).
ResolvesRun ==
    /\ pc = "scan"
    /\ building_number
    /\ pc' = "done" \/ ~ building_number'
    /\ Len(sentence') > Len(sentence)

\* The text of the buffered run as _parse_number_tokens joins it.
RunText == Join(NormalizeTokens(current_number))

\* The text the resolving step emits for the run.
EmittedForRun == sentence'[Len(sentence) + 1]

\* C2: whenever parse_number or, after it failed, parse_ordinal resolves the buffered
\* run to an integer n >= 0 (n = 0 included) the scanner emits the decimal string of
\* n for the run; it emits the run's literal text only when both return None.
C2_ResolvedRunEmitsDecimal ==
    [][ResolvesRun =>
          LET number == Resolved(RunText, language)
          IN  IF number.kind = "int" THEN EmittedForRun = StrOfInt(number.val)
              ELSE EmittedForRun = RunText]_vars

(***************************************************************************)
(* The group accumulator, step by step.                                    *)
(***************************************************************************)
\* This step is one iteration of the loop of _build_number.
ConsumesToken == pc = "build" /\ next_token' = next_token + 1

\* The token that iteration consumes.
CurrentToken == token_list[next_token]

\* The categories of the lexicon of the call's language.
IsUnitOrDirect(token) == token \in DOMAIN LanguageData(language).unit_and_direct_numbers
IsDirect(token) == token \in DOMAIN LanguageData(language).direct_numbers
IsTen(token) == token \in DOMAIN LanguageData(language).tens
IsHundred(token) == token \in DOMAIN LanguageData(language).hundreds
IsBigPower(token) == token \in DOMAIN LanguageData(language).big_powers_of_ten
Scale(token) == LanguageData(language).big_powers_of_ten[token]
WordValue(token) == LanguageData(language).all_numbers[token]

\* The adjacencies the validity rules forbid, as the specification lists them.
ListedInvalid(token, previous, grp) ==
    \/ IsUnitOrDirect(token) /\ IsUnitOrDirect(previous)
    \/ IsDirect(token) /\ IsTen(previous)
    \/ IsTen(token) /\ (IsTen(previous) \/ IsUnitOrDirect(previous))
    \/ IsHundred(token) /\ ~ IsBigPower(previous) /\ previous # NoToken
    \/ IsBigPower(token) /\ Scale(token) < grp

\* parse_number has returned for this English text.
ReturnedFor(words) ==
    /\ pc = "done"
    /\ op = "parse_number"
    /\ language = "en"
    /\ input_string = JoinWords(words)

\* C3: a token that fails the validity check against the previous numeral token
\* closes the number: one integer segment totalValue + currentGroupValue (as they
\* stood) is emitted with the pending skip words after it, the old
\* previousPowerOfTen is cleared and the token starts the next number from 0; and
\* "twenty two ten" yields exactly the segments 22 and 10.
C3_InvalidTokenSplits ==
    [][/\ (ConsumesToken /\ ListedInvalid(CurrentToken, previous_token, current_grp_value))
            => /\ value_list' = Append(value_list,
                                       StrOfInt(total_value + current_grp_value))
                                    \o used_skip_tokens
               /\ total_value' + current_grp_value' = WordValue(CurrentToken)
               /\ previous_power_of_10' = NoPower
                     \/ (IsBigPower(CurrentToken)
                            /\ previous_power_of_10' = Scale(CurrentToken))
               /\ previous_token' = CurrentToken
       /\ ReturnedFor(<<W_twenty, W_two, W_ten>>)'
            => value_list' = <<StrOfInt(22), StrOfInt(10)>>]_vars

C3_Witness ==
    /\ ReturnedFor(<<W_twenty, W_two, W_ten>>)
    /\ boundaries = 1
    /\ value_list = <<StrOfInt(22), StrOfInt(10)>>
    /\ result = ReturnsNone

\* parse_number has returned for this English text with the one segment n.
YieldsSingle(words, n) ==
    ReturnedFor(words) => (value_list = <<StrOfInt(n)>> /\ result = ReturnsInt(n))

\* C4: "one thousand two hundred" = 1200, "two hundred thousand" = 200000 and
\* "one hundred thousand two hundred" = 100200 are one integer segment each; a
\* big-power token of scale S > totalValue + currentGroupValue # 0, S # 100,
\* multiplies the whole value built so far and opens no new group.
C4_LargeMultiplier ==
    [][/\ (/\ ConsumesToken
           /\ IsBigPower(CurrentToken)
           /\ total_value + current_grp_value # 0
           /\ Scale(CurrentToken) > total_value + current_grp_value
           /\ Scale(CurrentToken) # 100)
            => /\ total_value' = (total_value + current_grp_value) * Scale(CurrentToken)
               /\ current_grp_value' = 0
               /\ previous_power_of_10' = Scale(CurrentToken)
               /\ value_list' = value_list
       /\ YieldsSingle(<<W_one, W_thousand, W_two, W_hundred>>, 1200)'
       /\ YieldsSingle(<<W_two, W_hundred, W_thousand>>, 200000)'
       /\ YieldsSingle(<<W_one, W_hundred, W_thousand, W_two, W_hundred>>, 100200)']_vars

C4_Witness ==
    /\ ReturnedFor(<<W_one, W_hundred, W_thousand, W_two, W_hundred>>)
    /\ result = ReturnsInt(100200)
    /\ previous_power_of_10 = 1000
    /\ boundaries = 0

\* C5: scale words must appear in strictly descending order: a big-power token of
\* scale S consumed while totalValue # 0 and a previousPowerOfTen P <= S is
\* recorded closes and emits the current number and is never merged into it.
C5_AscendingScaleIsBoundary ==
    [][(/\ ConsumesToken
        /\ IsBigPower(CurrentToken)
        /\ total_value # 0
        /\ previous_power_of_10 # NoPower
        /\ Scale(CurrentToken) >= previous_power_of_10)
          => /\ value_list' = Append(value_list,
                                     StrOfInt(total_value + current_grp_value))
                                  \o used_skip_tokens
             /\ total_value' + current_grp_value' = Scale(CurrentToken)]_vars

(***************************************************************************)
(* The single-number resolver.                                             *)
(***************************************************************************)
\* parse_number or parse_ordinal has returned or raised, the language being supported.
ResolverDone ==
    /\ pc = "done"
    /\ op \in {"parse_number", "parse_ordinal"}
    /\ ~ UnsupportedLanguage(language)

\* _build_number has run and returned.
AccumulatorReturned == value_list # <<>>

\* C6: parse_number returns an integer only if the accumulator produced exactly one
\* segment; whenever a validity boundary was declared (malformed grammar, two
\* adjacent numbers) it returns None as a normal value and raises nothing.
C6_BoundaryGivesNone ==
    ResolverDone =>
        /\ result.kind \in {"int", "None"}
        /\ AccumulatorReturned => (result.kind = "int" <=> Len(value_list) = 1)
        /\ (result.kind = "int" /\ token_list # <<>>) => Len(value_list) = 1
        /\ boundaries >= 1 => (AccumulatorReturned /\ result = ReturnsNone)

C6_Witness ==
    /\ ResolverDone
    /\ op = "parse_number"
    /\ boundaries >= 2
    /\ Len(value_list) >= 3
    /\ result = ReturnsNone

\* parse_number has got past the digit test of line 200 with a text that is not numeric.
NonDigitCall ==
    /\ op = "parse_number"
    /\ ~ UnsupportedLanguage(language)
    /\ pc # "call"
    /\ ~ IsNumeric(input_string)

\* The pre-check of lines 205-210 returned None.
PreCheckRejected == pc = "done" /\ ~ AccumulatorReturned /\ result = ReturnsNone

\* The token is neither whitespace, empty, a skip word nor a number word.
IsForeign(token) ==
    /\ ~ IsSpace(token)
    /\ token # <<>>
    /\ token \notin LanguageData(language).skip_tokens
    /\ token \notin DOMAIN LanguageData(language).all_numbers

\* C7 as stated: for non-digit text the pre-check returns None exactly when some
\* non-whitespace, non-empty token is neither a skip word nor a number word, whatever
\* the position of the skip words (also a skip word as the first token).
C7_PreCheckRejectsForeignOnly ==
    NonDigitCall =>
        (PreCheckRejected <=> \E i \in 1..Len(token_list) : IsForeign(token_list[i]))

\* C7 as amended: the pre-check returns None exactly when some token is foreign or the
\* first token (index 0) is a skip word; every other text is decided by the
\* accumulator.
C7_PreCheckRejectsForeignOrLeadingSkip ==
    NonDigitCall =>
        /\ PreCheckRejected <=>
              \/ \E i \in 1..Len(token_list) : IsForeign(token_list[i])
              \/ /\ Len(token_list) >= 1
                 /\ token_list[1] \in LanguageData(language).skip_tokens
        /\ (pc = "done" /\ ~ PreCheckRejected) =>
              (AccumulatorReturned /\ result = NumberBuilt(value_list))

C7_Witness ==
    /\ NonDigitCall
    /\ PreCheckRejected
    /\ Len(token_list) >= 3
    /\ token_list[1] \in LanguageData(language).skip_tokens
    /\ \A i \in 1..Len(token_list) : ~ IsForeign(token_list[i])

\* The literal (skip word) segments of the accumulator's output.
LiteralSegments(list) == {i \in 1..Len(list) : ~ IsNumeric(list[i])}

\* C8: skip words are neither lost nor duplicated: "one hundred and twenty" is the
\* single segment 120, and every skip word the accumulator saw was absorbed between
\* two numeral tokens of one number or is emitted once as a literal segment.
C8_SkipWordsKept ==
    /\ YieldsSingle(<<W_one, W_hundred, W_and, W_twenty>>, 120)
    /\ (pc = "done" /\ op = "parse_number" /\ AccumulatorReturned) =>
          skips_seen = skips_absorbed + Cardinality(LiteralSegments(value_list))

\* C9: with a language code outside the supported set parse_number, parse_ordinal and
\* parse raise the unsupported-language error for every text; they return nothing
\* and compute nothing with another language.
C9_UnsupportedLanguageRaises ==
    UnsupportedLanguage(language) =>
        /\ pc = "done" => result = RaisesValueError
        /\ result \in {NotReturned, RaisesValueError}
        /\ pc # "build"
        /\ sentence = <<>> /\ current_number = <<>> /\ ~ building_number
        /\ token_list = <<>> /\ value_list = <<>>

C9_Witness ==
    /\ UnsupportedLanguage(language)
    /\ op = "parse_number"
    /\ IsNumeric(input_string)
    /\ pc = "done"
    /\ result = RaisesValueError

\* C10: parse_number of the decimal digit string of n returns n, for every supported
\* language, without tokenizing and without running the accumulator.
C10_DigitsRoundTrip ==
    (op = "parse_number" /\ ~ UnsupportedLanguage(language) /\ pc # "call"
        /\ IsNumeric(input_string)) =>
        \A n \in 0..(MaxDigitsValue + 1) :
            input_string = StrOfInt(n) =>
                /\ pc = "done"
                /\ result = ReturnsInt(n)
                /\ token_list = <<>>
                /\ value_list = <<>>
                /\ next_token = 1

C10_Witness ==
    /\ op = "parse_number"
    /\ language = "es"
    /\ input_string = StrOfInt(120)
    /\ pc = "done"
    /\ result = ReturnsInt(120)

(***************************************************************************)
(* Texts without numerals.                                                 *)
(***************************************************************************)
\* parse runs for a supported language on a text none of whose tokens is a numeral.
ScansNoNumeral ==
    /\ op = "parse"
    /\ ~ UnsupportedLanguage(language)
    /\ pc # "call"
    /\ \A i \in 1..Len(tokens) : ~ IsNumeral(tokens[i], language)

\* C11: for every supported language and every text in which no token is a cardinal
\* or ordinal numeral (skip words allowed) the scanner never leaves Idle and parse
\* returns the text unchanged, so that parsing the result again changes nothing.
C11_NoNumeralTextUnchanged ==
    ScansNoNumeral =>
        /\ ~ building_number
        /\ current_number = <<>>
        /\ pc = "done" => result = ReturnsStr(input_string)

(***************************************************************************)
(* The ordinal resolver.                                                   *)
(***************************************************************************)
\* The ordinal-to-cardinal surface transformation of a lower-cased text, step by
\* step: the irregular substitutions, then a trailing 'ieth' to 'y', then a trailing
\* 'th' stripped.
OrdinalSurface(s) ==
    LET substituted == ReplaceAll(s, CARDINAL_DIRECT_NUMBERS, 1)
        suffixed == SubAtEnd(substituted, W_ieth, W_y)
    IN  SubAtEnd(suffixed, W_th, <<>>)

\* parse_ordinal has returned or raised.
OrdinalDone == pc = "done" /\ op = "parse_ordinal"

\* C12: parse_ordinal(text, lang) is parse_number(c(text), lang), c being the
\* ordinal-to-cardinal surface transformation (irregular substitutions, then trailing
\* 'ieth' to 'y', then trailing 'th' stripped) of the text in lower case;
\* parse_ordinal("twenty third") is 23, and parse_ordinal returns None whenever
\* parse_number does on the transformed text.
C12_OrdinalIsNumberOfSurface ==
    OrdinalDone =>
        LET transformed == OrdinalSurface(Lower(input_string))
        IN  /\ result = ParseNumber(transformed, language)
            /\ ParseNumber(transformed, language) = ReturnsNone => result = ReturnsNone
            /\ (language = "en" /\ input_string = JoinWords(<<W_twenty, W_third>>))
                  => result = ReturnsInt(23)

C12_Witness ==
    /\ OrdinalDone
    /\ language = "en"
    /\ input_string = JoinWords(<<W_twenty, W_third>>)
    /\ token_list = <<W_twenty, Sp, W_three>>
    /\ result = ReturnsInt(23)

(***************************************************************************)
(* Termination.                                                            *)
(***************************************************************************)
\* The scanner's step reads tokens[pos] and puts it last into the buffer or the output.
ScansInOrder ==
    (pc = "scan" /\ pc' = "scan") =>
        /\ pos' = pos + 1
        /\ tokens' = tokens
        /\ \/ /\ current_number' = Append(current_number, tokens[pos])
              /\ sentence' = sentence
           \/ /\ sentence'[Len(sentence')] = tokens[pos]
              /\ current_number' = <<>>

\* The accumulator's step reads token_list[next_token] and moves on by one.
AccumulatesInOrder ==
    (pc = "build" /\ pc' = "build") =>
        /\ next_token' = next_token + 1
        /\ token_list' = token_list
        /\ ~ (IsSpace(CurrentToken) \/ CurrentToken = <<>> \/ IsSkipToken(CurrentToken, language))
              => previous_token' = CurrentToken

\* A loop ends only when every token has been read.
ReturnsAfterLastToken ==
    /\ (pc = "scan" /\ pc' = "done" /\ ~ UnsupportedLanguage(language))
          => pos = Len(tokens) + 1
    /\ (pc = "build" /\ pc' = "done") => next_token = Len(token_list) + 1

\* An upper bound on the steps a call still has to take: the tokens not yet read and
\* the return; before tokenizing, what the text can at most give.
StepsLeft ==
    CASE pc = "call" -> 2 * Len(input_string) + 4
      [] pc = "scan" -> Len(tokens) - pos + 2
      [] pc = "build" -> Len(token_list) - next_token + 2
      [] OTHER -> 0

\* C13: the accumulator and the sentence scanner consume each token exactly once, in
\* order, and then terminate (every step brings the call nearer to its return, and
\* the position stays on a token or one past the last); for a supported language
\* parse always returns a text: it never raises and never returns None.
C13_ConsumesOnceAndReturns ==
    /\ [][/\ ScansInOrder
          /\ AccumulatesInOrder
          /\ ReturnsAfterLastToken
          /\ StepsLeft' < StepsLeft
          /\ StepsLeft' >= 0]_vars
    /\ [](/\ pc = "scan" => pos \in 1..(Len(tokens) + 1)
          /\ pc = "build" => next_token \in 1..(Len(token_list) + 1)
          /\ pc \in {"call", "scan", "build", "done"})
    /\ []((pc = "done" /\ op = "parse" /\ ~ UnsupportedLanguage(language))
             => result.kind = "str")

C13_Witness ==
    /\ ParseReturned
    /\ language = "en"
    /\ Len(tokens) >= 5
    /\ pos = Len(tokens) + 1
    /\ \E i \in 1..Len(tokens) : IsNumeral(tokens[i], language)

(***************************************************************************)
(* The scanner at a boundary token and at the end of the stream.           *)
(***************************************************************************)
\* This step meets a boundary token while a run is buffered (line 249).
BoundaryArrives ==
    /\ pc = "scan"
    /\ pc' = "scan"
    /\ building_number
    /\ ~ ExtendsRun(tokens[pos], language)

\* Neither parse_number nor parse_ordinal gives an integer for the buffered run.
BothResolversFail == Resolved(RunText, language).kind # "int"

\* C14: when a boundary token arrives and parse_number and parse_ordinal both fail on
\* the buffered run, the output is extended by exactly the buffered tokens as they
\* stood in the input (same case, same accents, each whitespace token once) followed
\* by the boundary token, and the scanner is Idle again with an empty buffer.
C14_UnresolvedRunVerbatim ==
    [][(BoundaryArrives /\ BothResolversFail) =>
          /\ Join(sentence') = (Join(sentence) \o Join(current_number)) \o tokens[pos]
          /\ ~ building_number'
          /\ current_number' = <<>>]_vars

\* The stream ends while a run is buffered (line 263).
StreamEndsInRun ==
    /\ pc = "scan"
    /\ pc' = "done"
    /\ building_number
    /\ result'.kind = "str"

\* C15: at the end of the stream a buffered run is resolved exactly as at a boundary
\* token, only without the boundary token: the output is that for the stream followed
\* by a boundary token b, with b removed. (A resolved run would be followed by the
\* buffer's trailing whitespace token; at the end of a stream the buffer does not end
\* in whitespace.)
C15_EndOfStreamAsBoundary ==
    [][StreamEndsInRun =>
          /\ Append(sentence', W_x) = ResolveRun(sentence, current_number, W_x, language)
          /\ result'.str = Join(sentence')
          /\ ~ IsSpace(current_number[Len(current_number)])]_vars

C15_Witness ==
    /\ ParseReturned
    /\ building_number
    /\ input_string = (W_x \o Sp) \o (W_twenty \o Sp)
    /\ current_number = <<W_twenty, Sp, <<>>>>
    /\ result.str = (W_x \o Sp) \o StrOfInt(20)

(***************************************************************************)
(* Scale words and the values of the accumulator.                          *)
(***************************************************************************)
\* The scale word is taken as a multiplier of the whole value built so far.
IsMultiplicativeClosure ==
    /\ ConsumesToken
    /\ IsBigPower(CurrentToken)
    /\ total_value + current_grp_value # 0
    /\ Scale(CurrentToken) > total_value + current_grp_value
    /\ Scale(CurrentToken) # 100

\* The scale word is added to the group in the accumulation step.
BigPowerAccumulated ==
    /\ ConsumesToken
    /\ IsBigPower(CurrentToken)
    /\ ~ IsMultiplicativeClosure

\* The step closed and emitted the number before taking the token.
BoundaryDeclared == value_list' # value_list

\* The largest scale that still belongs to a group.
MaximumGroupValue == IF language_info(language).USE_LONG_SCALE THEN 10000 ELSE 100

\* The first token of the text has been accumulated.
AfterFirstToken(lang, word) ==
    /\ op = "parse_number"
    /\ language = lang
    /\ pc = "build"
    /\ token_list[1] = word
    /\ next_token = 2

\* C16: a big-power token of scale S accumulated in step 5 (not as a multiplicative
\* closure) makes the group max(group, 1) * S, and the group is closed into the total
\* (group 0, previousPowerOfTen S) exactly when S > maximumGroupValue; so a scale S
\* with 100 < S <= 10000 leaves the short-scale accumulator (maximum 100) with the
\* group closed and previousPowerOfTen = S, and the long-scale one (maximum 10000)
\* with the group open and previousPowerOfTen unchanged.
C16_GroupClosedAboveMaximum ==
    [][/\ BigPowerAccumulated =>
            LET S == Scale(CurrentToken)
                total == IF BoundaryDeclared THEN 0 ELSE total_value
                group == IF BoundaryDeclared THEN 0 ELSE current_grp_value
                power == IF BoundaryDeclared THEN NoPower ELSE previous_power_of_10
                grown == (IF group = 0 THEN 1 ELSE group) * S
            IN  IF S > MaximumGroupValue
                THEN /\ total_value' = total + grown
                     /\ current_grp_value' = 0
                     /\ previous_power_of_10' = S
                ELSE /\ total_value' = total
                     /\ current_grp_value' = grown
                     /\ previous_power_of_10' = power
       /\ AfterFirstToken("en", W_thousand)' =>
             (total_value' = 1000 /\ current_grp_value' = 0
                 /\ previous_power_of_10' = 1000)
       /\ AfterFirstToken("es", W_mil)' =>
             (total_value' = 0 /\ current_grp_value' = 1000
                 /\ previous_power_of_10' = NoPower)]_vars

C16_Witness ==
    /\ AfterFirstToken("es", W_mil)
    /\ Len(token_list) >= 3
    /\ token_list[3] = W_mil
    /\ current_grp_value = 1000
    /\ previous_power_of_10 = NoPower
    /\ ~ language_info("en").USE_LONG_SCALE

\* The accumulated scale word is above the maximum group value: the group is closed
\* into the total at once.
IsEarlyClose == BigPowerAccumulated /\ Scale(CurrentToken) > MaximumGroupValue

\* C17 as stated: totalValue and currentGroupValue are never negative, and every
\* event that closes a group (validity boundary, multiplicative closure, early close
\* on S > maximumGroupValue) leaves both at 0 at the moment of closing (after a
\* validity boundary the token then starts from 0).
C17_ClosingLeavesBothZero ==
    [][ConsumesToken =>
          /\ total_value' >= 0
          /\ current_grp_value' >= 0
          /\ BoundaryDeclared => total_value' + current_grp_value' = WordValue(CurrentToken)
          /\ IsMultiplicativeClosure => (total_value' = 0 /\ current_grp_value' = 0)
          /\ IsEarlyClose => (total_value' = 0 /\ current_grp_value' = 0)]_vars

\* C17 as amended: both are never negative; a validity boundary resets both to 0
\* before the token is accumulated; a multiplicative closure and an early close set
\* currentGroupValue to 0 and leave the closed value, greater than 0, in totalValue.
C17_ClosingResetsGroup ==
    [][ConsumesToken =>
          /\ total_value' >= 0
          /\ current_grp_value' >= 0
          /\ BoundaryDeclared => total_value' + current_grp_value' = WordValue(CurrentToken)
          /\ IsMultiplicativeClosure =>
                /\ current_grp_value' = 0
                /\ total_value' = (total_value + current_grp_value) * Scale(CurrentToken)
                /\ total_value' > 0
          /\ IsEarlyClose =>
                /\ current_grp_value' = 0
                /\ total_value' >= Scale(CurrentToken)
                /\ ~ BoundaryDeclared => total_value' > total_value]_vars

C17_Witness ==
    /\ op = "parse_number"
    /\ language = "en"
    /\ pc = "build"
    /\ token_list = <<W_two, Sp, W_thousand, Sp, W_two, Sp, W_two>>
    /\ next_token = 8
    /\ boundaries = 1
    /\ value_list = <<StrOfInt(2002)>>
    /\ total_value = 0
    /\ current_grp_value = 2

(***************************************************************************)
(* The language of the ordinal fallback.                                   *)
(***************************************************************************)
\* C18: in parse the ordinal fallback for a buffered run always uses the fixed
\* default language 'en', whatever language the caller asked for, while the cardinal
\* attempt and the classification of the tokens use the caller's language.
C18_OrdinalFallbackEnglish ==
    [][/\ ResolvesRun =>
            LET cardinal == ParseNumber(RunText, language)
                ordinal == ParseOrdinal(RunText, "en")
            IN  EmittedForRun =
                   IF Truthy(cardinal) THEN StrOfInt(cardinal.val)
                   ELSE IF Truthy(ordinal) THEN StrOfInt(ordinal.val)
                   ELSE RunText
       /\ (pc = "scan" /\ pc' = "scan" /\ ~ building_number) =>
             building_number' = IsNumberToken(StripAccents(Lower(tokens[pos])), language)]_vars

C18_Witness ==
    /\ ParseReturned
    /\ language = "es"
    /\ input_string = W_mil \o W_th
    /\ building_number
    /\ ParseOrdinal(input_string, "es") = ReturnsInt(1000)
    /\ ParseOrdinal(input_string, "en") = ReturnsNone
    /\ result.str = W_mil \o W_th

(***************************************************************************)
(* The shape of the accumulator's output.                                  *)
(***************************************************************************)
\* The integer segments of the accumulator's output.
IntegerSegments(list) == {i \in 1..Len(list) : IsNumeric(list[i])}

\* _build_number returns in this step.
AccumulatorReturns == pc = "build" /\ pc' = "done"

\* C19: for every token sequence (the empty one too) the accumulator's output is not
\* empty, its last segment is an integer, it has one integer segment more than
\* boundaries were declared, and literal (skip word) segments stand only after an
\* integer segment emitted at a boundary: never first, never last; so there is
\* exactly one segment if and only if no boundary was declared.
C19_SegmentShape ==
    [][/\ ConsumesToken =>
             /\ Cardinality(IntegerSegments(value_list')) = boundaries'
             /\ value_list' # <<>> => IsNumeric(value_list'[1])
       /\ AccumulatorReturns =>
             /\ Len(value_list') >= 1
             /\ IsNumeric(value_list'[Len(value_list')])
             /\ Cardinality(IntegerSegments(value_list')) = boundaries' + 1
             /\ \A i \in LiteralSegments(value_list') :
                   /\ i > 1
                   /\ i < Len(value_list')
                   /\ \E k \in IntegerSegments(value_list') :
                         /\ k < i
                         /\ \A j \in (k + 1)..i : j \in LiteralSegments(value_list')
             /\ Len(value_list') = 1 <=> boundaries' = 0]_vars

C19_Witness ==
    /\ pc = "done"
    /\ op = "parse_number"
    /\ language = "en"
    /\ boundaries = 2
    /\ value_list = <<StrOfInt(2), W_and, StrOfInt(2), StrOfInt(2)>>

(***************************************************************************)
(* Texts without numerals handed to parse_number.                          *)
(***************************************************************************)
\* Some token of the text is a number word of the language.
HasNumeralToken ==
    \E i \in 1..Len(token_list) : token_list[i] \in DOMAIN LanguageData(language).all_numbers

\* The text is empty, whitespace only, or whitespace and skip words with no skip word
\* as the first token.
OnlyWhitespaceAndLaterSkips ==
    /\ \A i \in 1..Len(token_list) :
          \/ IsSpace(token_list[i])
          \/ token_list[i] = <<>>
          \/ token_list[i] \in LanguageData(language).skip_tokens
    /\ token_list # <<>> => token_list[1] \notin LanguageData(language).skip_tokens

\* C20: for a non-digit text without numeral token that passes the pre-check (the
\* empty string, whitespace only, whitespace followed by skip words not at token
\* index 0) the accumulator gives the single segment 0 and parse_number returns the
\* integer 0, not None; in every other case a returned integer is the value built
\* from at least one numeral token.
C20_NoNumeralGivesZero ==
    (NonDigitCall /\ pc = "done") =>
        /\ OnlyWhitespaceAndLaterSkips =>
              (value_list = <<StrOfInt(0)>> /\ result = ReturnsInt(0))
        /\ (~ HasNumeralToken /\ ~ OnlyWhitespaceAndLaterSkips) => result = ReturnsNone
        /\ (result.kind = "int" /\ ~ OnlyWhitespaceAndLaterSkips) =>
              /\ HasNumeralToken
              /\ boundaries = 0
              /\ value_list = <<StrOfInt(result.val)>>
              /\ result.val = total_value

C20_Witness ==
    /\ NonDigitCall
    /\ pc = "done"
    /\ language = "en"
    /\ input_string = Sp \o W_and
    /\ token_list = <<<<>>, Sp, W_and>>
    /\ value_list = <<StrOfInt(0)>>
    /\ result = ReturnsInt(0)

====
